---- MODULE Spec2Model ----
(***************************************************************************)
(* Model of the foodgram backend core: the recipe serializer (validation   *)
(* and the transactional create/update), the Favorite/BuyList relation     *)
(* serializers over their unique-constrained tables, the subscription      *)
(* serializer and the shopping-list aggregation.                           *)
(*                                                                         *)
(* Sources: backend/api/serializers.py, backend/api/validators.py,         *)
(* backend/api/permissions.py, backend/api/utils.py,                       *)
(* backend/recipes/models.py.                                              *)
(***************************************************************************)
EXTENDS Integers, Sequences, FiniteSets, TLC

VARIABLES
    recipes,       \* Recipe table with its IngredientRecipe rows and tag set
    relation,      \* Favorite and BuyList tables: model -> <<user, recipe>> -> rows
    subscription,  \* Subscription table: <<user, author>> -> rows
    clients,       \* in-flight requests (add, recipe write or read), one per client
    resp           \* the response of the request handled last

vars == <<recipes, relation, subscription, clients, resp>>

----------------------------------------------------------------------------
(* Bounds of the model *)

\* Number of Recipe rows the store may hold.
MaxRecipes == 2
\* Longest tag list and ingredient list of one submission.
MaxListLen == 2
\* Number of concurrently served requests.
NumClients == 2
\* Number of ingredient lines of a recipe in the shopping-list stores.
MaxLines == 2

----------------------------------------------------------------------------
(* Domains *)

Users == {"u1", "u2", "u3"}
Authors == {"u1", "u2"}
Names == {"n1", "n2"}
Tags == {"t1", "t2"}
RecipeIds == 1..MaxRecipes

Range(s) == {s[i] : i \in DOMAIN s}
SeqsUpTo(S, n) == UNION {[1..k -> S] : k \in 0..n}

NoRecipe == [exists |-> FALSE]
NoResp == [op |-> "none"]

\* Recipe.objects.create draws the next id of the table's sequence; no row
\* is ever deleted here, so that is the number of rows plus one.
NextId(db) == Cardinality({i \in DOMAIN db : db[i].exists}) + 1

----------------------------------------------------------------------------
(* recipes/constants.py is not among the sources: the four limits are the  *)
(* ones the specification gives (and the validator messages repeat).       *)

MIN_COOKING_TIME == 1
MAX_COOKING_TIME == 1000
MIN_AMOUNT_INGREDIENT == 1
MAX_AMOUNT_INGREDIENT == 3000

\* django.core.validators: a validator raises when compare(value, limit).
MaxValueValidator(limit, a) == a > limit
MinValueValidator(limit, a) == a < limit

\* Variant for sensitivity analysis: the upper limit of cooking_time taken as exclusive.
cooking_time_exclusive_max(a) ==
    a >= MAX_COOKING_TIME \/ MinValueValidator(MIN_COOKING_TIME, a)

\* Recipe.cooking_time validators: TRUE when the value is rejected.
cooking_time_invalid(a) ==
    MaxValueValidator(MAX_COOKING_TIME, a) \/ MinValueValidator(MIN_COOKING_TIME, a)

\* IngredientRecipe.amount validators: TRUE when the value is rejected.
amount_invalid(a) ==
    MaxValueValidator(MAX_AMOUNT_INGREDIENT, a)
        \/ MinValueValidator(MIN_AMOUNT_INGREDIENT, a)

\* Field-level validation of the serializer (run before validate()): the
\* model validators of cooking_time and of every nested amount.
field_errors(attrs) ==
    \/ cooking_time_invalid(attrs.cooking_time)
    \/ \E i \in DOMAIN attrs.recipe_ingredients :
           amount_invalid(attrs.recipe_ingredients[i].amount)

----------------------------------------------------------------------------
(* api/validators.py *)

RECURSIVE unique_scan(_, _, _)
unique_scan(data, i, temp) ==
    IF i > Len(data) THEN FALSE
    ELSE IF data[i] \in temp THEN TRUE
    ELSE unique_scan(data, i + 1, temp \cup {data[i]})

\* validate_unique_for_list: TRUE when it raises (an element is repeated).
validate_unique_for_list(data) == unique_scan(data, 1, {})

----------------------------------------------------------------------------
(* RecipeSerializer.validate *)

ingredients_obj(attrs) ==
    [i \in DOMAIN attrs.recipe_ingredients |-> attrs.recipe_ingredients[i].ingredient]

\* Recipe.objects.filter(name=name, author=author, tag__in=tags).exists()
recipe_exists(db, name, author, tags) ==
    \E i \in DOMAIN db :
        /\ db[i].exists
        /\ db[i].name = name
        /\ db[i].author = author
        /\ db[i].tag \cap Range(tags) # {}

\* The checks in the order of the code; each error is a ValidationError of
\* the framework, named here by the error kind its message stands for.
RecipeSerializer_validate(db, method, author, attrs) ==
    IF attrs.tag = <<>> THEN "ValidationError"
    ELSE IF attrs.recipe_ingredients = <<>> THEN "ValidationError"
    ELSE IF method = "POST" /\ recipe_exists(db, attrs.name, author, attrs.tag)
         THEN "ConflictError"
    ELSE IF validate_unique_for_list(attrs.tag) THEN "DuplicateInSubmissionError"
    ELSE IF validate_unique_for_list(ingredients_obj(attrs))
         THEN "DuplicateInSubmissionError"
    ELSE "ok"

\* serializer.is_valid(): the fields first, then validate().
is_valid(db, method, author, attrs) ==
    IF field_errors(attrs) THEN "ValidationError"
    ELSE RecipeSerializer_validate(db, method, author, attrs)

----------------------------------------------------------------------------
(* RecipeSerializer.create / update: the store after each statement *)

\* _create_ingredients: one IngredientRecipe row per entry, in order.
create_ingredients(db, id, ingredients_data) ==
    [db EXCEPT ![id].lines = @ \o ingredients_data]

\* The statements of create(): Recipe.objects.create, _create_ingredients,
\* recipe.tag.set.
create_steps(db, id, author, attrs) ==
    LET s1 == [db EXCEPT ![id] = [exists |-> TRUE, author |-> author,
                                  name |-> attrs.name,
                                  cooking_time |-> attrs.cooking_time,
                                  tag |-> {}, lines |-> <<>>]]
        s2 == create_ingredients(s1, id, attrs.recipe_ingredients)
        s3 == [s2 EXCEPT ![id].tag = Range(attrs.tag)]
    IN <<s1, s2, s3>>

\* The statements of update(): instance.save, instance.tag.set,
\* recipe_ingredients.all().delete, _create_ingredients.
update_steps(db, id, attrs) ==
    LET s1 == [db EXCEPT ![id].name = attrs.name,
                         ![id].cooking_time = attrs.cooking_time]
        s2 == [s1 EXCEPT ![id].tag = Range(attrs.tag)]
        s3 == [s2 EXCEPT ![id].lines = <<>>]
        s4 == create_ingredients(s3, id, attrs.recipe_ingredients)
    IN <<s1, s2, s3, s4>>

\* The statement that raises: the one the store fails at (fail_at, 0 for
\* none), or the bulk insert when it breaks unique_recipe_ingredient.
failing_statement(fail_at, insert_at, attrs) ==
    IF fail_at # 0 /\ fail_at <= insert_at THEN fail_at
    ELSE IF validate_unique_for_list(ingredients_obj(attrs)) THEN insert_at
    ELSE fail_at

\* Variant for sensitivity analysis: no transaction around the statements.
without_transaction(before, steps, failed) ==
    IF failed = 0 THEN steps[Len(steps)]
    ELSE IF failed = 1 THEN before
    ELSE steps[failed - 1]

\* @transaction.atomic: every statement's effect, or none when one raises.
transaction_atomic(before, steps, failed) ==
    IF failed = 0 THEN steps[Len(steps)] ELSE before

----------------------------------------------------------------------------
(* Recipe requests *)

Response(op, id, author, attrs, result, failed) ==
    [op |-> op, id |-> id, author |-> author, data |-> attrs,
     result |-> result, failed_at |-> failed]

\* A request is two calls of the view, serializer.is_valid() and
\* serializer.save(): two steps of its client, and the steps of other
\* clients may run between them. Only save() runs in a transaction.

\* Creates that have passed is_valid and have not been saved yet.
pending_creates(cl) ==
    Cardinality({c \in DOMAIN cl : cl[c].pc = "valid" /\ cl[c].op = "create"})

\* POST /recipes/: is_valid() on the store of the moment. A refused
\* submission is answered at once.
ValidateCreate(c, author, attrs) ==
    /\ resp.op = "none"
    /\ clients[c].pc = "idle"
    /\ NextId(recipes) + pending_creates(clients) <= MaxRecipes
    /\ LET v == is_valid(recipes, "POST", author, attrs)
       IN IF v # "ok"
          THEN /\ resp' = Response("create", NextId(recipes), author, attrs, v, 0)
               /\ clients' = clients
          ELSE /\ resp' = resp
               /\ clients' = [clients EXCEPT ![c] =
                                 [pc |-> "valid", op |-> "create", id |-> 0,
                                  author |-> author, data |-> attrs]]
    /\ UNCHANGED <<recipes, relation, subscription>>

\* save() of a POST: create() in a transaction.
CreateRecipe(c, fail_at) ==
    /\ resp.op = "none"
    /\ clients[c].pc = "valid" /\ clients[c].op = "create"
    /\ LET id == NextId(recipes)
           author == clients[c].author
           attrs == clients[c].data
           failed == failing_statement(fail_at, 2, attrs)
       IN /\ recipes' = transaction_atomic(
                 recipes, create_steps(recipes, id, author, attrs), failed)
          /\ resp' = Response("create", id, author, attrs,
                              IF failed = 0 THEN "ok" ELSE "StorageError",
                              failed)
    /\ clients' = [clients EXCEPT ![c] = [pc |-> "idle"]]
    /\ UNCHANGED <<relation, subscription>>

\* PATCH /recipes/<id>/: is_valid() on the store of the moment. The
\* submission carries every field (validate() reads name, tags and
\* ingredients unconditionally).
ValidateUpdate(c, id, attrs) ==
    /\ resp.op = "none"
    /\ clients[c].pc = "idle"
    /\ recipes[id].exists
    /\ LET author == recipes[id].author
           v == is_valid(recipes, "PATCH", author, attrs)
       IN IF v # "ok"
          THEN /\ resp' = Response("update", id, author, attrs, v, 0)
               /\ clients' = clients
          ELSE /\ resp' = resp
               /\ clients' = [clients EXCEPT ![c] =
                                 [pc |-> "valid", op |-> "update", id |-> id,
                                  author |-> author, data |-> attrs]]
    /\ UNCHANGED <<recipes, relation, subscription>>

\* save() of a PATCH: update() in a transaction.
UpdateRecipe(c, fail_at) ==
    /\ resp.op = "none"
    /\ clients[c].pc = "valid" /\ clients[c].op = "update"
    /\ LET id == clients[c].id
           author == clients[c].author
           attrs == clients[c].data
           failed == failing_statement(fail_at, 4, attrs)
       IN /\ recipes' = transaction_atomic(
                 recipes, update_steps(recipes, id, attrs), failed)
          /\ resp' = Response("update", id, author, attrs,
                              IF failed = 0 THEN "ok" ELSE "StorageError",
                              failed)
    /\ clients' = [clients EXCEPT ![c] = [pc |-> "idle"]]
    /\ UNCHANGED <<relation, subscription>>

\* PUT: IsAuthorOrReadOnly.has_permission raises before anything is read.
PutRecipe(id, user) ==
    /\ resp.op = "none"
    /\ resp' = [op |-> "put", id |-> id, author |-> user,
                result |-> "MethodNotAllowed"]
    /\ UNCHANGED <<recipes, relation, subscription, clients>>

\* The response is returned; the next request may be served.
ReturnResponse ==
    /\ resp.op # "none"
    /\ resp' = NoResp
    /\ UNCHANGED <<recipes, relation, subscription, clients>>

----------------------------------------------------------------------------
(* Specifications of the recipe requests *)

Line(i, a) == [ingredient |-> i, amount |-> a]

BaseData ==
    [name |-> "n1", cooking_time |-> 1, tag |-> <<"t1">>,
     recipe_ingredients |-> <<Line(1, 1)>>]

\* Submissions: the base submission with its name, its tag list or its
\* ingredient list replaced (every list up to MaxListLen).
RecipeData ==
    {[BaseData EXCEPT !.name = n] : n \in Names}
        \cup {[BaseData EXCEPT !.tag = t] : t \in SeqsUpTo(Tags, MaxListLen)}
        \cup {[BaseData EXCEPT !.recipe_ingredients = l] :
                 l \in SeqsUpTo({Line(1, 1), Line(2, 1)}, MaxListLen)}

\* Submissions around the limits of cooking_time and amount.
LimitValues(lo, hi) == {lo - 1, lo, hi, hi + 1}
RangeData ==
    {[BaseData EXCEPT !.name = n, !.cooking_time = t, !.recipe_ingredients = l] :
        n \in Names,
        t \in LimitValues(MIN_COOKING_TIME, MAX_COOKING_TIME),
        l \in {<<Line(1, a)>> :
                  a \in LimitValues(MIN_AMOUNT_INGREDIENT, MAX_AMOUNT_INGREDIENT)}}

IdleClients == [c \in 1..NumClients |-> [pc |-> "idle"]]
Models == {"Favorite", "BuyList"}
NoRelationRows == [p \in Authors \X RecipeIds |-> 0]
NoSubscriptionRows == [p \in Users \X Users |-> 0]

InitRecipes ==
    /\ recipes = [i \in RecipeIds |-> NoRecipe]
    /\ relation = [m \in Models |-> NoRelationRows]
    /\ subscription = NoSubscriptionRows
    /\ clients = IdleClients
    /\ resp = NoResp

NextRecipes ==
    \/ /\ resp.op = "none"
       /\ \E c \in 1..NumClients, a \in Authors, d \in RecipeData :
              ValidateCreate(c, a, d)
    \/ \E c \in 1..NumClients, f \in 0..3 : CreateRecipe(c, f)
    \/ /\ resp.op = "none"
       /\ \E c \in 1..NumClients, i \in RecipeIds, d \in RecipeData :
              ValidateUpdate(c, i, d)
    \/ \E c \in 1..NumClients, f \in 0..4 : UpdateRecipe(c, f)
    \/ \E i \in RecipeIds, u \in Authors : PutRecipe(i, u)
    \/ ReturnResponse

SpecRecipes == InitRecipes /\ [][NextRecipes]_vars

\* The range checks read the submission alone: the requests around the
\* limits are served one after the other, by the first client.
NextRange ==
    \/ /\ resp.op = "none"
       /\ \E d \in RangeData : ValidateCreate(1, "u1", d)
    \/ \E f \in 0..3 : CreateRecipe(1, f)
    \/ /\ resp.op = "none"
       /\ \E i \in RecipeIds, d \in RangeData : ValidateUpdate(1, i, d)
    \/ \E f \in 0..4 : UpdateRecipe(1, f)
    \/ ReturnResponse

SpecRange == InitRecipes /\ [][NextRange]_vars

----------------------------------------------------------------------------
(* BaseAddRecipeSerializer (FavoriteSerializer, BuyListSerializer)           *)
(* A request runs is_valid() and then save(): two steps of its client, and   *)
(* the requests of other clients may run between them.                       *)

\* model.objects.filter(user=user, recipe=recipe_id).exists()
relation_exists(table, user, recipe_id) == table[<<user, recipe_id>>] >= 1

\* Variant for sensitivity analysis: the table declares no unique constraint.
no_unique_constraint(table, user, recipe_id) == TRUE

\* UniqueConstraint(fields=('user', 'recipe')) of Favorite and of BuyList:
\* TRUE when the store admits the new row.
unique_user_and_recipe(table, user, recipe_id) == table[<<user, recipe_id>>] = 0

\* The row inserted by model.objects.create.
insert_row(table, user, recipe_id) ==
    [table EXCEPT ![<<user, recipe_id>>] = @ + 1]

\* BaseAddRecipeSerializer.validate
AddValidate(c, model, user, recipe_id) ==
    /\ clients[c].pc = "idle"
    /\ clients' = [clients EXCEPT ![c] =
           IF relation_exists(relation[model], user, recipe_id)
           THEN [pc |-> "done", model |-> model, user |-> user,
                 recipe_id |-> recipe_id, checked |-> FALSE,
                 result |-> "ConflictError"]
           ELSE [pc |-> "validated", model |-> model, user |-> user,
                 recipe_id |-> recipe_id]]
    /\ UNCHANGED <<recipes, relation, subscription, resp>>

\* BaseAddRecipeSerializer.create: get_object_or_404, then the insert; the
\* store's IntegrityError is not caught.
AddCreate(c) ==
    /\ clients[c].pc = "validated"
    /\ LET r == clients[c]
           done(result) == [pc |-> "done", model |-> r.model, user |-> r.user,
                            recipe_id |-> r.recipe_id, checked |-> TRUE,
                            result |-> result]
       IN IF ~recipes[r.recipe_id].exists
          THEN /\ clients' = [clients EXCEPT ![c] = done("NotFoundError")]
               /\ relation' = relation
          ELSE IF ~unique_user_and_recipe(relation[r.model], r.user, r.recipe_id)
          THEN /\ clients' = [clients EXCEPT ![c] = done("IntegrityError")]
               /\ relation' = relation
          ELSE /\ clients' = [clients EXCEPT ![c] = done("created")]
               /\ relation' = [relation EXCEPT ![r.model] =
                                  insert_row(@, r.user, r.recipe_id)]
    /\ UNCHANGED <<recipes, subscription, resp>>

\* The response is returned; the client may send its next request.
AddReturn(c) ==
    /\ clients[c].pc = "done"
    /\ clients' = [clients EXCEPT ![c] = [pc |-> "idle"]]
    /\ UNCHANGED <<recipes, relation, subscription, resp>>

StoredRecipe(author, lines) ==
    [exists |-> TRUE, author |-> author, name |-> "n1", cooking_time |-> 1,
     tag |-> {"t1"}, lines |-> lines]

\* Recipe 1 exists; the other ids name no recipe.
InitRelations ==
    /\ recipes = [i \in RecipeIds |->
                     IF i = 1 THEN StoredRecipe("u1", <<Line(1, 1)>>) ELSE NoRecipe]
    /\ relation = [m \in Models |-> NoRelationRows]
    /\ subscription = NoSubscriptionRows
    /\ clients = IdleClients
    /\ resp = NoResp

NextRelations ==
    \/ \E c \in 1..NumClients, m \in Models, u \in Authors, r \in RecipeIds :
           AddValidate(c, m, u, r)
    \/ \E c \in 1..NumClients : AddCreate(c)
    \/ \E c \in 1..NumClients : AddReturn(c)

SpecRelations == InitRelations /\ [][NextRelations]_vars

----------------------------------------------------------------------------
(* SubscriptionSerializer *)

\* Variant for sensitivity analysis: the check of user == author left out.
validate_without_self_check(table, user, author) ==
    IF table[<<user, author>>] >= 1 THEN "ConflictError" ELSE "ok"

\* SubscriptionSerializer.validate: the existing subscription first, then
\* user == author.
SubscriptionSerializer_validate(table, user, author) ==
    IF table[<<user, author>>] >= 1 THEN "ConflictError"
    ELSE IF user = author THEN "SelfReferenceError"
    ELSE "ok"

\* Subscription.objects.create(user=user, author=author): the tables the
\* insert may leave. Whether Subscription declares (user, author) unique is
\* not in the sources read: on an existing row the insert either raises
\* IntegrityError or adds a second row.
subscription_create(table, user, author) ==
    IF table[<<user, author>>] = 0
    THEN {[result |-> "created",
           table |-> [table EXCEPT ![<<user, author>>] = 1]]}
    ELSE {[result |-> "IntegrityError", table |-> table],
          [result |-> "created",
           table |-> [table EXCEPT ![<<user, author>>] = @ + 1]]}

\* is_valid(): validate() on the table of the moment. A refused request is
\* answered at once; create() is a later call of the view, outside any
\* transaction.
SubscribeValidate(c, user, author) ==
    /\ clients[c].pc = "idle"
    /\ LET v == SubscriptionSerializer_validate(subscription, user, author)
       IN IF v # "ok"
          THEN /\ resp' = [op |-> "subscribe", user |-> user,
                           author |-> author, result |-> v]
               /\ clients' = clients
          ELSE /\ resp' = resp
               /\ clients' = [clients EXCEPT ![c] =
                                 [pc |-> "valid", op |-> "subscribe",
                                  user |-> user, author |-> author]]
    /\ UNCHANGED <<recipes, relation, subscription>>

\* save(): SubscriptionSerializer.create; nothing catches the store's error.
SubscribeCreate(c) ==
    /\ clients[c].pc = "valid" /\ clients[c].op = "subscribe"
    /\ \E out \in subscription_create(subscription, clients[c].user,
                                      clients[c].author) :
           /\ subscription' = out.table
           /\ resp' = [op |-> "subscribe", user |-> clients[c].user,
                       author |-> clients[c].author, result |-> out.result]
    /\ clients' = [clients EXCEPT ![c] = [pc |-> "idle"]]
    /\ UNCHANGED <<recipes, relation>>

NextSubscribe ==
    \/ \E c \in 1..NumClients, u \in Authors, a \in Authors :
           SubscribeValidate(c, u, a)
    \/ \E c \in 1..NumClients : SubscribeCreate(c)

SpecSubscribe == InitRecipes /\ [][NextSubscribe]_vars

----------------------------------------------------------------------------
(* api/utils.py: get_ingredients_for_download                                *)
(* A text is the sequence of its code points.                                *)

\* The Ingredient table: (name, measurement_unit) is unique.
\* 1: "Salt", "g"   2: "Salt", "kg"   3: "Oil", "g"
Ingredient ==
    <<[name |-> <<83, 97, 108, 116>>, measurement_unit |-> <<103>>],
      [name |-> <<83, 97, 108, 116>>, measurement_unit |-> <<107, 103>>],
      [name |-> <<79, 105, 108>>, measurement_unit |-> <<103>>]>>

\* Variant for sensitivity analysis: the cart rows of every user are joined.
joined_rows_any_user(db, cart, user) ==
    {row \in [recipe : DOMAIN db, line : 1..MaxLines,
              buylist : Authors \X (1..2)] :
        /\ db[row.recipe].exists
        /\ row.line <= Len(db[row.recipe].lines)
        /\ row.buylist[2] <= cart[<<row.buylist[1], row.recipe>>]}

\* IngredientRecipe.objects.filter(recipe__buylist__user=user): the
\* IngredientRecipe rows joined with the BuyList rows of their recipe that
\* belong to the user, one joined row per pair (buylist[2] numbers the
\* BuyList rows of one (user, recipe)).
joined_rows(db, cart, user) ==
    {row \in [recipe : DOMAIN db, line : 1..MaxLines,
              buylist : {user} \X (1..2)] :
        /\ db[row.recipe].exists
        /\ row.line <= Len(db[row.recipe].lines)
        /\ row.buylist[2] <= cart[<<row.buylist[1], row.recipe>>]}

row_line(db, row) == db[row.recipe].lines[row.line]

\* Sum('amount') over the joined rows of one group.
RECURSIVE Sum(_, _)
Sum(db, rows) ==
    IF rows = {} THEN 0
    ELSE LET row == CHOOSE x \in rows : TRUE
         IN row_line(db, row).amount + Sum(db, rows \ {row})

\* .values('ingredient__name', 'ingredient__measurement_unit')
\* .annotate(amount=Sum('amount')): one row per group of the joined rows.
\* (UniqueConstraint's violation_error_message dates the framework after
\* the release that stopped adding Meta.ordering to GROUP BY.)
ingredients(db, cart, user) ==
    LET rows == joined_rows(db, cart, user)
        key(row) ==
            <<Ingredient[row_line(db, row).ingredient].name,
              Ingredient[row_line(db, row).ingredient].measurement_unit>>
    IN {[ingredient__name |-> g[1], ingredient__measurement_unit |-> g[2],
         amount |-> Sum(db, {row \in rows : key(row) = g})] :
           g \in {key(row) : row \in rows}}

\* The query carries no order_by, and Meta.ordering is not applied to a
\* grouped query: the store returns the groups in an order of its choice.
result_orders(S) ==
    {q \in [1..Cardinality(S) -> S] : \A i, j \in DOMAIN q : q[i] = q[j] => i = j}

\* str() of a non-negative int.
RECURSIVE str(_)
str(n) == IF n < 10 THEN <<48 + n>> ELSE str(n \div 10) \o <<48 + (n % 10)>>

\* f'{name} ({unit}) — {amount}'
line(ingredient) ==
    ingredient.ingredient__name \o <<32>>
        \o <<40>> \o ingredient.ingredient__measurement_unit \o <<41>>
        \o <<32, 8212, 32>> \o str(ingredient.amount)

\* 'Список покупок:'
ListHeader ==
    <<1057, 1087, 1080, 1089, 1086, 1082, 32,
      1087, 1086, 1082, 1091, 1087, 1086, 1082, 58>>

\* '\n'.join(list)
RECURSIVE join(_)
join(list) ==
    IF Len(list) = 0 THEN <<>>
    ELSE IF Len(list) = 1 THEN list[1]
    ELSE list[1] \o <<10>> \o join(Tail(list))

ingredient_list(query) == <<ListHeader>> \o [i \in DOMAIN query |-> line(query[i])]

response_content(query) == join(ingredient_list(query))

\* get_ingredients_for_download(user): the query, run and rendered.
get_ingredients_for_download(user) ==
    /\ \E query \in result_orders(ingredients(recipes, relation["BuyList"], user)) :
           resp' = [op |-> "download", user |-> user,
                    text |-> response_content(query)]
    /\ UNCHANGED <<recipes, relation, subscription, clients>>

\* The stores the aggregation is run on: two recipes of one to MaxLines
\* ingredient lines each, and any cart of the two users.
ShopAmounts == {5, 10}
ShopLines ==
    {l \in UNION {[1..k -> [ingredient : DOMAIN Ingredient, amount : ShopAmounts]] :
                     k \in 1..MaxLines} :
        \A i, j \in DOMAIN l : i < j => l[i].ingredient < l[j].ingredient}
ShopRecipeIds == {1, 2}

InitShopping ==
    /\ \E l1 \in ShopLines, l2 \in ShopLines :
           recipes = [i \in RecipeIds |->
                         IF i = 1 THEN StoredRecipe("u1", l1)
                         ELSE IF i = 2 THEN StoredRecipe("u2", l2)
                         ELSE NoRecipe]
    /\ \E cart \in [Authors \X ShopRecipeIds -> {0, 1}] :
           relation = [m \in Models |->
                          IF m = "BuyList"
                          THEN [p \in Authors \X RecipeIds |->
                                   IF p \in DOMAIN cart THEN cart[p] ELSE 0]
                          ELSE NoRelationRows]
    /\ subscription = NoSubscriptionRows
    /\ clients = IdleClients
    /\ resp = NoResp

NextShopping == \E u \in Authors : get_ingredients_for_download(u)

SpecShopping == InitShopping /\ [][NextShopping]_vars

----------------------------------------------------------------------------
(* RecipeSerializer.create / update / to_representation, statement by       *)
(* statement, served to several clients at once.                             *)
(* The variable recipes is the committed store. A transaction's writes are   *)
(* seen by its own connection only (read committed) and reach recipes when   *)
(* the decorated method returns; a query outside a transaction reads the     *)
(* committed store of the moment it runs.                                    *)

statement_count(op) == IF op = "create" THEN 3 ELSE 4

\* The statements of a transaction applied to the committed store.
statements(db, tx) ==
    IF tx.op = "create" THEN create_steps(db, tx.id, tx.author, tx.data)
    ELSE update_steps(db, tx.id, tx.data)

\* Ids drawn by Recipe.objects.create in transactions still open.
drawn_ids(cl) ==
    {cl[c].id : c \in {x \in DOMAIN cl :
                          cl[x].pc = "tx" /\ cl[x].op = "create" /\ cl[x].done > 0}}

\* Recipe.objects.create in a transaction: the sequence hands out an id no
\* committed row and no open transaction has.
free_ids(db, cl) == {i \in DOMAIN db : ~db[i].exists} \ drawn_ids(cl)

\* instance.save() writes the recipe's row and holds the row's lock until
\* the transaction ends: the save() of another update of the recipe waits.
row_locked(cl, c, id) ==
    \E x \in DOMAIN cl \ {c} :
        /\ cl[x].pc = "tx" /\ cl[x].op = "update"
        /\ cl[x].id = id /\ cl[x].done > 0

\* What one query of a recipe's tags and one of its lines can return together.
tags_and_lines(recipe) == <<recipe.tag, recipe.lines>>

\* POST: is_valid has passed on the committed store; create() is entered.
BeginCreate(c, author, attrs) ==
    /\ clients[c].pc = "idle"
    /\ is_valid(recipes, "POST", author, attrs) = "ok"
    /\ clients' = [clients EXCEPT ![c] =
                      [pc |-> "tx", op |-> "create", id |-> 0,
                       author |-> author, data |-> attrs, done |-> 0]]
    /\ UNCHANGED <<recipes, relation, subscription, resp>>

\* PATCH: is_valid has passed on the committed store; update() is entered.
BeginUpdate(c, id, attrs) ==
    /\ clients[c].pc = "idle"
    /\ recipes[id].exists
    /\ is_valid(recipes, "PATCH", recipes[id].author, attrs) = "ok"
    /\ clients' = [clients EXCEPT ![c] =
                      [pc |-> "tx", op |-> "update", id |-> id,
                       author |-> recipes[id].author, data |-> attrs,
                       done |-> 0]]
    /\ UNCHANGED <<recipes, relation, subscription, resp>>

\* The next statement of create() or update() runs inside the transaction.
Statement(c) ==
    /\ clients[c].pc = "tx"
    /\ clients[c].done < statement_count(clients[c].op)
    /\ IF clients[c].op = "create" /\ clients[c].done = 0
       THEN \E i \in free_ids(recipes, clients) :
                /\ \A j \in free_ids(recipes, clients) : i <= j
                /\ clients' = [clients EXCEPT ![c].id = i, ![c].done = 1]
       ELSE /\ clients[c].done = 0 => ~row_locked(clients, c, clients[c].id)
            /\ clients' = [clients EXCEPT ![c].done = @ + 1]
    /\ UNCHANGED <<recipes, relation, subscription, resp>>

\* The method returns: the transaction commits, every statement's effect
\* reaches the committed store at once. (Each read in progress on the
\* recipe notes the state committed, for the properties.)
Commit(c) ==
    /\ clients[c].pc = "tx"
    /\ clients[c].done = statement_count(clients[c].op)
    /\ LET tx == clients[c]
           after == transaction_atomic(recipes, statements(recipes, tx), 0)
       IN /\ recipes' = after
          /\ resp' = Response(tx.op, tx.id, tx.author, tx.data, "ok", 0)
          /\ clients' =
                 [x \in DOMAIN clients |->
                     IF x = c THEN [pc |-> "idle"]
                     ELSE IF clients[x].pc = "read" /\ clients[x].id = tx.id
                     THEN [clients[x] EXCEPT !.seen = @ \cup {tags_and_lines(after[tx.id])}]
                     ELSE clients[x]]
    /\ UNCHANGED <<relation, subscription>>

\* The statement about to run raises: the transaction is rolled back.
Rollback(c) ==
    /\ clients[c].pc = "tx"
    /\ clients[c].done < statement_count(clients[c].op)
    /\ LET tx == clients[c]
           failed == tx.done + 1
           \* a create that fails at its first statement has drawn no id
           steps == IF tx.id = 0 THEN <<recipes>> ELSE statements(recipes, tx)
       IN /\ recipes' = transaction_atomic(recipes, steps, failed)
          /\ resp' = Response(tx.op, tx.id, tx.author, tx.data,
                              "StorageError", failed)
    /\ clients' = [clients EXCEPT ![c] = [pc |-> "idle"]]
    /\ UNCHANGED <<relation, subscription>>

\* GET of a recipe: the instance handed to to_representation.
ReadStart(c, id) ==
    /\ clients[c].pc = "idle"
    /\ recipes[id].exists
    /\ clients' = [clients EXCEPT ![c] =
                      [pc |-> "read", id |-> id, queries |-> 0,
                       lines |-> <<>>, seen |-> {tags_and_lines(recipes[id])}]]
    /\ UNCHANGED <<recipes, relation, subscription, resp>>

\* super().to_representation(instance): the field 'ingredients' queries
\* instance.recipe_ingredients.
ReadIngredients(c) ==
    /\ clients[c].pc = "read"
    /\ clients[c].queries = 0
    /\ clients' = [clients EXCEPT ![c].queries = 1,
                                  ![c].lines = recipes[clients[c].id].lines]
    /\ UNCHANGED <<recipes, relation, subscription, resp>>

\* tags = instance.tag.all(), a second query; the representation is returned.
ReadTags(c) ==
    /\ clients[c].pc = "read"
    /\ clients[c].queries = 1
    /\ resp' = [op |-> "read", id |-> clients[c].id,
                tag |-> recipes[clients[c].id].tag,
                lines |-> clients[c].lines, seen |-> clients[c].seen]
    /\ clients' = [clients EXCEPT ![c] = [pc |-> "idle"]]
    /\ UNCHANGED <<recipes, relation, subscription>>

\* Two submissions that differ in their tags and in their lines.
ConcurrentData ==
    {BaseData,
     [BaseData EXCEPT !.tag = <<"t2">>, !.recipe_ingredients = <<Line(2, 1)>>]}

\* Recipe 1 is stored and lies in the cart of u1.
InitConcurrent ==
    /\ recipes = [i \in RecipeIds |->
                     IF i = 1 THEN StoredRecipe("u1", <<Line(1, 1)>>) ELSE NoRecipe]
    /\ relation = [m \in Models |->
                      [p \in Authors \X RecipeIds |->
                          IF m = "BuyList" /\ p = <<"u1", 1>> THEN 1 ELSE 0]]
    /\ subscription = NoSubscriptionRows
    /\ clients = IdleClients
    /\ resp = NoResp

NextConcurrent ==
    \/ \E c \in 1..NumClients, d \in ConcurrentData : BeginCreate(c, "u2", d)
    \/ \E c \in 1..NumClients, i \in RecipeIds, d \in ConcurrentData :
           BeginUpdate(c, i, d)
    \/ \E c \in 1..NumClients : Statement(c)
    \/ \E c \in 1..NumClients : Commit(c)
    \/ \E c \in 1..NumClients : Rollback(c)
    \/ \E c \in 1..NumClients, i \in RecipeIds : ReadStart(c, i)
    \/ \E c \in 1..NumClients : ReadIngredients(c)
    \/ \E c \in 1..NumClients : ReadTags(c)
    \/ get_ingredients_for_download("u1")

SpecConcurrent == InitConcurrent /\ [][NextConcurrent]_vars

----------------------------------------------------------------------------
(* Properties: shared definitions *)

HasRepeated(s) == \E i, j \in DOMAIN s : i < j /\ s[i] = s[j]

\* The step serves a request of kind op.
Served(op) == resp.op = "none" /\ resp'.op = op

\* The text cut at its line feeds.
RECURSIVE split_lines(_, _, _, _)
split_lines(text, i, current, done) ==
    IF i > Len(text) THEN Append(done, current)
    ELSE IF text[i] = 10 THEN split_lines(text, i + 1, <<>>, Append(done, current))
    ELSE split_lines(text, i + 1, Append(current, text[i]), done)
SplitLines(text) == split_lines(text, 1, <<>>, <<>>)

StartsWith(s, prefix) ==
    Len(prefix) <= Len(s) /\ SubSeq(s, 1, Len(prefix)) = prefix

\* A decimal numeral without sign or leading zero, and its value.
IsDecimal(d) ==
    /\ Len(d) >= 1
    /\ \A i \in DOMAIN d : d[i] \in 48..57
    /\ Len(d) > 1 => d[1] # 48
RECURSIVE DecimalValue(_)
DecimalValue(d) ==
    IF Len(d) = 0 THEN 0
    ELSE 10 * DecimalValue(SubSeq(d, 1, Len(d) - 1)) + (d[Len(d)] - 48)

\* The ingredient lines of the recipes in the user's cart, the
\* (name, measurement unit) pairs among them and the total of a pair.
CartRecipes(user) ==
    {r \in RecipeIds : recipes[r].exists /\ relation["BuyList"][<<user, r>>] >= 1}
CartLines(user) ==
    UNION {{<<r, i>> : i \in DOMAIN recipes[r].lines} : r \in CartRecipes(user)}
PairOf(rl) == Ingredient[recipes[rl[1]].lines[rl[2]].ingredient]
CartPairs(user) == {PairOf(rl) : rl \in CartLines(user)}
RECURSIVE TotalAmount(_)
TotalAmount(ls) ==
    IF ls = {} THEN 0
    ELSE LET rl == CHOOSE x \in ls : TRUE
         IN recipes[rl[1]].lines[rl[2]].amount + TotalAmount(ls \ {rl})
PairTotal(user, pair) == TotalAmount({rl \in CartLines(user) : PairOf(rl) = pair})

\* "<name> (<unit>) " and "<name> (<unit>) -- " with the dash U+2014.
PairPrefix(pair) == pair.name \o <<32, 40>> \o pair.measurement_unit \o <<41, 32>>
LinePrefix(pair) == PairPrefix(pair) \o <<8212, 32>>

----------------------------------------------------------------------------
(* C1 *)

\* C1: the downloaded list has exactly one line per distinct (ingredient
\* name, measurement unit) pair among the ingredient lines of the recipes
\* in the user's cart, and the amount on that line is the sum of the amounts
\* of those lines over all recipes of the cart; recipes outside the user's
\* cart (also those in another user's cart) add no line and no amount.
C1_OneLinePerPairWithSum ==
    resp.op = "download" =>
        LET ls == Tail(SplitLines(resp.text))
            pairs == CartPairs(resp.user)
        IN /\ Len(ls) = Cardinality(pairs)
           /\ \A pair \in pairs :
                  \E i \in DOMAIN ls :
                      /\ StartsWith(ls[i], LinePrefix(pair))
                      /\ LET d == SubSeq(ls[i], Len(LinePrefix(pair)) + 1, Len(ls[i]))
                         IN IsDecimal(d)
                            /\ DecimalValue(d) = PairTotal(resp.user, pair)

\* C1 witness: u1 holds both recipes in the cart, each with salt in grams
\* (10 and 5) and nothing else, while u2 holds recipe 2 too: the list of u1
\* is the header and "Salt (g) -- 15".
C1_Witness ==
    /\ resp.op = "download" /\ resp.user = "u1"
    /\ CartRecipes("u1") = {1, 2} /\ CartRecipes("u2") = {2}
    /\ recipes[1].lines = <<Line(1, 10)>>
    /\ recipes[2].lines = <<Line(1, 5)>>
    /\ Tail(SplitLines(resp.text)) = <<LinePrefix(Ingredient[1]) \o <<49, 53>>>>

----------------------------------------------------------------------------
(* C2 *)

\* The form of a list with the given header line.
ListForm(header) ==
    LET segs == SplitLines(resp.text)
    IN /\ segs[1] = header
       /\ \A i \in 2..Len(segs) :
              \E pair \in CartPairs(resp.user) :
                  /\ StartsWith(segs[i], LinePrefix(pair))
                  /\ LET d == SubSeq(segs[i], Len(LinePrefix(pair)) + 1, Len(segs[i]))
                     IN IsDecimal(d)
                        /\ DecimalValue(d) = PairTotal(resp.user, pair)
       /\ CartRecipes(resp.user) = {} => resp.text = header

\* C2: the text starts with the header line "Shopping list:",
\* every further line is "<name> (<unit>) -- <summed amount>" (the dash is
\* U+2014), the lines are joined by single line feeds with none trailing,
\* and for an empty cart the text is exactly "Shopping list:".
C2_HeaderShoppingList ==
    resp.op = "download" =>
        ListForm(<<83, 104, 111, 112, 112, 105, 110, 103, 32, 108, 105, 115, 116, 58>>)

----------------------------------------------------------------------------
(* C10 *)

\* C10: two downloads by the same user on the same store return the same
\* text.
C10_SameStoreSameText ==
    [][(/\ resp.op = "download" /\ resp'.op = "download"
        /\ resp'.user = resp.user
        /\ recipes' = recipes /\ relation' = relation)
       => resp'.text = resp.text]_vars

----------------------------------------------------------------------------
(* C3, C4 *)

\* C3: no Favorite or BuyList table ever holds two rows of one (user,
\* recipe) pair, and a request to add a pair whose row the store already
\* holds when the request is checked ends with ConflictError and leaves the
\* tables as they were, with exactly one row of the pair.
C3_OneRowPerPair ==
    [][/\ \A m \in Models, p \in Authors \X RecipeIds : relation'[m][p] <= 1
       /\ \A c \in 1..NumClients :
              (/\ clients[c].pc = "idle" /\ clients'[c].pc # "idle"
               /\ relation[clients'[c].model]
                          [<<clients'[c].user, clients'[c].recipe_id>>] >= 1)
              => /\ clients'[c].pc = "done"
                 /\ clients'[c].result = "ConflictError"
                 /\ relation' = relation
                 /\ relation'[clients'[c].model]
                             [<<clients'[c].user, clients'[c].recipe_id>>] = 1]_vars

\* C3 witness: a second add of a stored pair has ended with ConflictError,
\* and the table holds one row of the pair.
C3_Witness ==
    \E c \in 1..NumClients :
        /\ clients[c].pc = "done"
        /\ clients[c].result = "ConflictError"
        /\ relation[clients[c].model][<<clients[c].user, clients[c].recipe_id>>] = 1

\* C4: of two requests that add the same pair of an existing recipe and
\* that both passed the existence check before either wrote, one creates
\* the row, the other ends with ConflictError, and one row is stored.
C4_RaceLoserGetsConflictError ==
    \A c1, c2 \in 1..NumClients :
        (/\ c1 # c2
         /\ clients[c1].pc = "done" /\ clients[c2].pc = "done"
         /\ clients[c1].checked /\ clients[c2].checked
         /\ clients[c1].model = clients[c2].model
         /\ clients[c1].user = clients[c2].user
         /\ clients[c1].recipe_id = clients[c2].recipe_id
         /\ recipes[clients[c1].recipe_id].exists)
        => /\ relation[clients[c1].model]
                      [<<clients[c1].user, clients[c1].recipe_id>>] = 1
           /\ {clients[c1].result, clients[c2].result} = {"created", "ConflictError"}

----------------------------------------------------------------------------
(* C5, C6, C8 *)

\* C5: a create or update whose tag list or ingredient list repeats an
\* element ends with DuplicateInSubmissionError and writes nothing,
\* whatever the store holds.
C5_RepeatedElementIsDuplicateError ==
    [][((Served("create") \/ Served("update"))
        /\ (\/ HasRepeated(resp'.data.tag)
            \/ HasRepeated([i \in DOMAIN resp'.data.recipe_ingredients |->
                               resp'.data.recipe_ingredients[i].ingredient])))
       => /\ resp'.result = "DuplicateInSubmissionError"
          /\ recipes' = recipes]_vars

\* C6: an update that does not succeed, rejected by the validation or
\* failed at a statement of the write, leaves the target recipe's scalar
\* fields, tag set and ingredient lines as they were.
C6_FailedUpdateChangesNothing ==
    [][(Served("update") /\ resp'.result # "ok")
       => recipes'[resp'.id] = recipes[resp'.id]]_vars

\* C6 witness: an update failed at its last statement (the bulk insert),
\* after the save of another name and the deletion of other lines.
C6_Witness ==
    /\ resp.op = "update"
    /\ resp.result = "StorageError"
    /\ resp.failed_at = 4
    /\ recipes[resp.id].name # resp.data.name
    /\ recipes[resp.id].lines # resp.data.recipe_ingredients
    /\ recipes[resp.id].lines # <<>>

\* A submission that passes every check but the name/tag check.
OtherwiseValid(d) ==
    /\ d.cooking_time \in 1..1000
    /\ \A i \in DOMAIN d.recipe_ingredients :
           d.recipe_ingredients[i].amount \in 1..3000
    /\ d.tag # <<>> /\ d.recipe_ingredients # <<>>
    /\ ~HasRepeated(d.tag)
    /\ ~HasRepeated([i \in DOMAIN d.recipe_ingredients |->
                        d.recipe_ingredients[i].ingredient])

\* The store holds a recipe of the author with the name and one of the tags.
SameNameCommonTag(author, name, tags) ==
    \E i \in RecipeIds :
        /\ recipes[i].exists
        /\ recipes[i].author = author /\ recipes[i].name = name
        /\ \E k \in DOMAIN tags : tags[k] \in recipes[i].tag

\* C8: an otherwise valid create is answered with ConflictError exactly
\* when the store it is answered on holds a recipe of the author with that
\* name and a common tag; no update is answered with ConflictError.
C8_ConflictOnCreateOnly ==
    [][/\ (Served("create") /\ OtherwiseValid(resp'.data))
          => (resp'.result = "ConflictError"
                 <=> SameNameCommonTag(resp'.author, resp'.data.name, resp'.data.tag))
       /\ Served("update") => resp'.result # "ConflictError"]_vars

----------------------------------------------------------------------------
(* C7 *)

\* C7: a subscribe request of a user to themselves ends with
\* SelfReferenceError, and no state holds a Subscription row with
\* user = author.
C7_NoSelfSubscription ==
    /\ \A u \in Users : subscription[<<u, u>>] = 0
    /\ (resp.op = "subscribe" /\ resp.user = resp.author)
           => resp.result = "SelfReferenceError"

\* C7 witness: a user with a subscription to another author has asked to
\* subscribe to themselves and got SelfReferenceError.
C7_Witness ==
    /\ resp.op = "subscribe" /\ resp.user = resp.author
    /\ resp.result = "SelfReferenceError"
    /\ \E a \in Users : subscription[<<resp.user, a>>] = 1

----------------------------------------------------------------------------
(* C9 *)

InRange(d) ==
    /\ d.cooking_time \in 1..1000
    /\ \A i \in DOMAIN d.recipe_ingredients :
           d.recipe_ingredients[i].amount \in 1..3000

\* C9: a create or update with cooking_time outside 1..1000 or an amount
\* outside 1..3000 ends with ValidationError and writes nothing, one with
\* both inside (1, 1000, 3000 included) is not refused as invalid, and no
\* stored recipe has a cooking_time outside 1..1000 or a line with an
\* amount outside 1..3000.
C9_InclusiveRanges ==
    [][(Served("create") \/ Served("update"))
       => /\ ~InRange(resp'.data)
                => resp'.result = "ValidationError" /\ recipes' = recipes
          /\ InRange(resp'.data) => resp'.result # "ValidationError"
          /\ \A i \in RecipeIds :
                 recipes'[i].exists
                     => /\ recipes'[i].cooking_time \in 1..1000
                        /\ \A k \in DOMAIN recipes'[i].lines :
                               recipes'[i].lines[k].amount \in 1..3000]_vars

\* C9 witness: a recipe stored with cooking_time 1000 and amount 3000, and
\* one stored with cooking_time 1 and amount 1.
C9_Witness ==
    /\ resp.op \in {"create", "update"} /\ resp.result = "ok"
    /\ \E i, j \in RecipeIds :
           /\ recipes[i].exists /\ recipes[j].exists
           /\ recipes[i].cooking_time = 1000
           /\ recipes[i].lines[1].amount = 3000
           /\ recipes[j].cooking_time = 1
           /\ recipes[j].lines[1].amount = 1

----------------------------------------------------------------------------
(* C11 *)

\* No committed recipe lacks its tags or its lines.
CommittedRecipesComplete ==
    \A i \in RecipeIds :
        recipes[i].exists => recipes[i].tag # {} /\ Len(recipes[i].lines) > 0

\* A committed create or update leaves exactly the submitted tags and lines.
CommittedAsSubmitted ==
    (resp.op \in {"create", "update"} /\ resp.result = "ok")
        => /\ recipes[resp.id].exists
           /\ recipes[resp.id].tag = Range(resp.data.tag)
           /\ recipes[resp.id].lines = resp.data.recipe_ingredients

\* A shopping list is the text of the committed store it was run on.
DownloadOfCommittedStore ==
    resp.op = "download"
        => \E query \in result_orders(
                   ingredients(recipes, relation["BuyList"], resp.user)) :
               resp.text = response_content(query)

\* The tags and lines a finished read returned were, together, the state of
\* the recipe at some moment of the read.
ReadOfOneState ==
    resp.op = "read" => <<resp.tag, resp.lines>> \in resp.seen

\* C11: while create or update run, every reader (a request reading the
\* recipe, or the shopping list) sees the recipe's complete state before the
\* operation or its complete state after it: a committed create or update
\* leaves exactly the submitted tags and lines, no stored recipe is seen
\* without tags or lines, and no read returns the tags of one state with
\* the lines of another.
C11_ReadersSeeBeforeOrAfter ==
    /\ CommittedRecipesComplete
    /\ CommittedAsSubmitted
    /\ DownloadOfCommittedStore
    /\ ReadOfOneState

====
